---- MODULE Spec2Model ----
(***************************************************************************)
(* A model of heredity.py: the enumeration of the worlds (one_gene,        *)
(* two_genes, have_trait), the joint probability of a world, its           *)
(* accumulation in the marginal distributions and their normalization.     *)
(*                                                                         *)
(* Every probability the program holds is a Python float, an IEEE 754      *)
(* binary64. A number of the model is a pair [x, f]: f is the float the    *)
(* program holds, computed with round-to-nearest-even operations in the    *)
(* order of the source, and x is the rational number the same operations   *)
(* give in exact arithmetic. Statements about the real-number meaning of   *)
(* the computation are made of x, statements about what the program        *)
(* stores and prints of f.                                                 *)
(***************************************************************************)
EXTENDS Integers, Sequences, FiniteSets, TLC

(***************************************************************************)
(* Natural numbers of any size: little-endian sequences of limbs below     *)
(* Base with no leading zero limb, so that equal numbers are equal         *)
(* sequences. The empty sequence is 0.                                     *)
(***************************************************************************)
Base == 2^14

BigZero == <<>>

BigOne == <<1>>

\* The value e. TLC evaluates an operand where it is first used, which may be deep
\* inside other operators; Eval(v, e) has TLC evaluate v first, so that the
\* evaluation of e never has that of v below it on the stack.
Eval(v, e) == IF v = v THEN e ELSE e

\* The sequence f. TLC keeps [i \in 1..n |-> e] as a rule and evaluates e at every
\* application; appending the empty sequence makes it the tuple of its values.
Tuple(f) == f \o <<>>

Limb(x, i) == IF i >= 1 /\ i <= Len(x) THEN x[i] ELSE 0

\* the number limb + Base * hi
BigCons(limb, hi) == IF limb = 0 /\ hi = <<>> THEN <<>> ELSE <<limb>> \o hi

\* The number carry + c[i] + c[i+1] * Base + ..., for integers c[i] that need
\* not be limbs: the carry runs from the low end to the high end.
RECURSIVE BigNormFrom(_, _, _)
BigNormFrom(c, i, carry) ==
    IF i > Len(c) /\ carry = 0 THEN <<>>
    ELSE BigCons((Limb(c, i) + carry) % Base,
                 BigNormFrom(c, i + 1, (Limb(c, i) + carry) \div Base))

\* for 0 <= n < 2^31
BigFromInt(n) == BigNormFrom(<<n>>, 1, 0)

\* for x below 2^31
BigToInt(x) == Limb(x, 1) + Base * Limb(x, 2) + Base * Base * Limb(x, 3)

BigAdd(x, y) ==
    Eval(x, Eval(y,
        BigNormFrom(Tuple([i \in 1..(IF Len(x) > Len(y) THEN Len(x) ELSE Len(y)) |->
                              Limb(x, i) + Limb(y, i)]), 1, 0)))

\* x - y for x >= y
BigSub(x, y) ==
    Eval(x, Eval(y, BigNormFrom(Tuple([i \in 1..Len(x) |-> x[i] - Limb(y, i)]), 1, 0)))

\* x[j] * y[k+1-j] + x[j+1] * y[k-j] + ... : what the limbs from j on of x add
\* to the column k of the product
RECURSIVE BigColumn(_, _, _, _)
BigColumn(x, y, k, j) ==
    IF j > Len(x) \/ j > k THEN 0
    ELSE x[j] * Limb(y, k + 1 - j) + BigColumn(x, y, k, j + 1)

\* x * y, when one of them has no more than 8 limbs
BigMul(x, y) ==
    Eval(x, Eval(y,
        BigNormFrom(Tuple([k \in 1..(Len(x) + Len(y)) |-> BigColumn(x, y, k, 1)]), 1, 0)))

BigCmpAt(x, y, i) == IF x[i] < y[i] THEN -1 ELSE 1

\* -1, 0, 1 as x is below, equal to, above y
BigCmp(x, y) ==
    IF Len(x) < Len(y) THEN -1
    ELSE IF Len(x) > Len(y) THEN 1
    ELSE IF x = y THEN 0
    ELSE BigCmpAt(x, y, CHOOSE i \in 1..Len(x) :
                            x[i] /= y[i] /\ \A j \in (i + 1)..Len(x) : x[j] = y[j])

BigLeq(x, y) == BigCmp(x, y) <= 0

\* the number of bits of 0 <= n < Base
IntBitLen(n) == CHOOSE k \in 0..14 : n < 2^k /\ (k = 0 \/ n >= 2^(k - 1))

BigBitLen(x) == IF x = <<>> THEN 0 ELSE 14 * (Len(x) - 1) + IntBitLen(x[Len(x)])

\* 2^s
BigPow2(s) == [i \in 1..(s \div 14) |-> 0] \o <<2^(s % 14)>>

\* x * 2^s
BigShiftLeft(x, s) == BigMul(x, BigPow2(s))

\* floor(y / 2^t) for t < 14
BigShiftBits(y, t) ==
    BigNormFrom(Tuple([i \in 1..Len(y) |->
                    (y[i] \div 2^t) + (Limb(y, i + 1) % 2^t) * 2^(14 - t)]), 1, 0)

\* floor(x / 2^s)
BigShiftRight(x, s) ==
    IF s \div 14 >= Len(x) THEN <<>>
    ELSE BigShiftBits(SubSeq(x, (s \div 14) + 1, Len(x)), s % 14)

BigIsOdd(x) == x /= <<>> /\ x[1] % 2 = 1

\* x / 2^s rounded to the nearest natural number, to the even one of two that
\* are equally near: x + 2^(s-1) - 1, plus 1 when floor(x / 2^s) is odd,
\* passes the next multiple of 2^s exactly when x is rounded up
BigRoundShift(x, s) ==
    IF s = 0 THEN x
    ELSE Eval(x, BigShiftRight(
             BigAdd(x, BigSub(BigAdd(BigPow2(s - 1),
                                     IF BigIsOdd(BigShiftRight(x, s)) THEN BigOne ELSE <<>>),
                              BigOne)), s))

BigDigitFrom(r, d, qhat) ==
    IF BigLeq(BigMul(d, BigFromInt(qhat)), r) THEN qhat
    ELSE IF BigLeq(BigMul(d, BigFromInt(qhat - 1)), r) THEN qhat - 1
    ELSE qhat - 2

BigDigitTop(r, d, top) == BigDigitFrom(r, d, IF top < Base THEN top ELSE Base - 1)

\* The digit floor(r / d) for r < d * Base, where the top limb of d is at least
\* Base / 2: the quotient of the top limbs of r by the top limb of d is the
\* digit, or above it by 1 or 2.
BigDigit(r, d) ==
    BigDigitTop(r, d, (Limb(r, Len(d) + 1) * Base + Limb(r, Len(d))) \div d[Len(d)])

BigDivPut(d, q, r, k) == Eval(k, <<BigCons(k, q), BigSub(r, BigMul(d, BigFromInt(k)))>>)

BigDivStep(d, q, r) == BigDivPut(d, q, r, BigDigit(r, d))

BigDivAt(d, limb, above) == Eval(above, BigDivStep(d, above[1], BigCons(limb, above[2])))

\* <<q, r>>: the long division by d of the number made of the limbs i, i+1, ..
\* of n gives the quotient q and the remainder r
RECURSIVE BigDivModFrom(_, _, _)
BigDivModFrom(n, d, i) ==
    IF i > Len(n) THEN <<<<>>, <<>>>>
    ELSE BigDivAt(d, n[i], BigDivModFrom(n, d, i + 1))

BigDivModBack(qr, s) == Eval(qr, <<qr[1], BigShiftRight(qr[2], s)>>)

BigDivModScaled(n, d, s) == Eval(n, Eval(d, BigDivModBack(BigDivModFrom(n, d, 1), s)))

BigDivModBy(n, d, s) == BigDivModScaled(BigShiftLeft(n, s), BigShiftLeft(d, s), s)

\* <<floor(n / d), n mod d>> for d > 0: both are scaled by a power of two that
\* brings the top limb of d to at least Base / 2
BigDivMod(n, d) == BigDivModBy(n, d, 14 - IntBitLen(d[Len(d)]))

(***************************************************************************)
(* Rational numbers [num, den] of naturals, den > 0, not reduced.          *)
(***************************************************************************)
Rat(n, d) == [num |-> BigFromInt(n), den |-> BigFromInt(d)]

RatAdd(a, b) ==
    IF a.den = b.den THEN [num |-> BigAdd(a.num, b.num), den |-> a.den]
    ELSE [num |-> BigAdd(BigMul(a.num, b.den), BigMul(b.num, a.den)),
          den |-> BigMul(a.den, b.den)]

\* a - b for a >= b
RatSub(a, b) ==
    IF a.den = b.den THEN [num |-> BigSub(a.num, b.num), den |-> a.den]
    ELSE [num |-> BigSub(BigMul(a.num, b.den), BigMul(b.num, a.den)),
          den |-> BigMul(a.den, b.den)]

RatMul(a, b) == [num |-> BigMul(a.num, b.num), den |-> BigMul(a.den, b.den)]

\* a / b for b > 0
RatDiv(a, b) == [num |-> BigMul(a.num, b.den), den |-> BigMul(a.den, b.num)]

RatEq(a, b) == BigMul(a.num, b.den) = BigMul(b.num, a.den)

RatLeq(a, b) == BigLeq(BigMul(a.num, b.den), BigMul(b.num, a.den))

RatIsZero(a) == a.num = <<>>

\* |a - b|
RatDist(a, b) == IF RatLeq(b, a) THEN RatSub(a, b) ELSE RatSub(b, a)

(***************************************************************************)
(* binary64 floats that are zero or positive and normal: [m, e] stands     *)
(* for m * 2^e with 2^52 <= m < 2^53, and [<<>>, 0] for 0.0. The           *)
(* probabilities of the populations considered stay far inside the         *)
(* exponent range, so overflow and subnormal numbers are not modelled.     *)
(***************************************************************************)
FZero == [m |-> <<>>, e |-> 0]

\* m * 2^e for a rounded m of 53 bits, or of 54 when the rounding carried
FCarry(m, e) ==
    IF BigBitLen(m) > 53 THEN [m |-> BigShiftRight(m, 1), e |-> e + 1]
    ELSE [m |-> m, e |-> e]

FRoundLen(x, e, len) ==
    IF len <= 53 THEN [m |-> BigShiftLeft(x, 53 - len), e |-> e - (53 - len)]
    ELSE FCarry(BigRoundShift(x, len - 53), e + (len - 53))

\* the float nearest to x * 2^e, ties to even
FRound(x, e) == IF x = <<>> THEN FZero ELSE FRoundLen(x, e, BigBitLen(x))

FFromInt(n) == FRound(BigFromInt(n), 0)

FMul(a, b) == FRound(BigMul(a.m, b.m), a.e + b.e)

FAddAt(a, b, e) ==
    FRound(BigAdd(BigShiftLeft(a.m, a.e - e), BigShiftLeft(b.m, b.e - e)), e)

FAdd(a, b) ==
    IF a.m = <<>> THEN b
    ELSE IF b.m = <<>> THEN a
    ELSE FAddAt(a, b, IF a.e < b.e THEN a.e ELSE b.e)

FSubAt(a, b, e) ==
    FRound(BigSub(BigShiftLeft(a.m, a.e - e), BigShiftLeft(b.m, b.e - e)), e)

\* a - b for a >= b
FSub(a, b) ==
    IF b.m = <<>> THEN a
    ELSE Eval(a, FSubAt(a, b, IF a.e < b.e THEN a.e ELSE b.e))

\* the float nearest to (q + r / d) * 2^(e+1) for a quotient q of 57 or 58 bits
\* and a remainder r: the bit added below q tells whether r is 0
FDivRound(qr, e) ==
    Eval(qr, FRound(BigAdd(BigAdd(qr[1], qr[1]), IF qr[2] = <<>> THEN <<>> ELSE BigOne), e))

\* a / b for b > 0
FDiv(a, b) ==
    IF a.m = <<>> THEN FZero
    ELSE Eval(b, FDivRound(BigDivMod(BigShiftLeft(a.m, 57), b.m), a.e - b.e - 58))

\* the exact value of a float
FToRat(a) ==
    IF a.e >= 0 THEN [num |-> BigShiftLeft(a.m, a.e), den |-> BigOne]
    ELSE [num |-> a.m, den |-> BigPow2(0 - a.e)]

(***************************************************************************)
(* A number of the program: f is the float it holds, x the rational the    *)
(* same operations give without rounding.                                  *)
(***************************************************************************)
NFromInt(n) == [x |-> Rat(n, 1), f |-> FFromInt(n)]

\* the literal k/100 of the source, 0.01 for k = 1: the float nearest to it
Decimal(k) == [x |-> Rat(k, 100), f |-> FDiv(FFromInt(k), FFromInt(100))]

NAdd(a, b) == Eval(a, Eval(b, [x |-> RatAdd(a.x, b.x), f |-> FAdd(a.f, b.f)]))

\* a - b for a >= b
NSub(a, b) == Eval(a, Eval(b, [x |-> RatSub(a.x, b.x), f |-> FSub(a.f, b.f)]))

NMul(a, b) == Eval(a, Eval(b, [x |-> RatMul(a.x, b.x), f |-> FMul(a.f, b.f)]))

\* a / b for b that is not zero
NDiv(a, b) == Eval(a, Eval(b, [x |-> RatDiv(a.x, b.x), f |-> FDiv(a.f, b.f)]))

\* Python raises ZeroDivisionError when the float it divides by is 0.0
NIsZero(a) == a.f.m = <<>>

(***************************************************************************)
(* The constants of the program.                                           *)
(***************************************************************************)
PROBS ==
    [gene     |-> (2 :> Decimal(1)) @@ (1 :> Decimal(3)) @@ (0 :> Decimal(96)),
     trait    |-> (2 :> ((TRUE :> Decimal(65)) @@ (FALSE :> Decimal(35)))) @@
                  (1 :> ((TRUE :> Decimal(56)) @@ (FALSE :> Decimal(44)))) @@
                  (0 :> ((TRUE :> Decimal(1)) @@ (FALSE :> Decimal(99)))),
     mutation |-> Decimal(1)]

\* Python's None
None == "None"

(***************************************************************************)
(* load_data: the rows of the CSV file, each [name, mother, father, trait] *)
(* of strings, become the dict people. A dict is [keys, val]: its keys in  *)
(* insertion order, which is the order Python iterates it in, and the      *)
(* value of each key. A later row of the same name replaces the value and  *)
(* leaves the key in its place. No field is validated.                     *)
(***************************************************************************)
load_record(row) ==
    [name   |-> row.name,
     mother |-> IF row.mother = "" THEN None ELSE row.mother,
     father |-> IF row.father = "" THEN None ELSE row.father,
     trait  |-> IF row.trait = "1" THEN "True"
                ELSE IF row.trait = "0" THEN "False" ELSE None]

load_row(data, row) ==
    [keys |-> IF row.name \in DOMAIN data.val THEN data.keys
              ELSE Append(data.keys, row.name),
     val  |-> (row.name :> load_record(row)) @@ data.val]

RECURSIVE load_rows(_, _)
load_rows(rows, i) ==
    IF i = 0 THEN [keys |-> <<>>, val |-> <<>>]
    ELSE load_row(load_rows(rows, i - 1), rows[i])

load_data(rows) == load_rows(rows, Len(rows))

\* str(b) for a bool b, as the trait of a record is kept
BoolStr(b) == IF b THEN "True" ELSE "False"

(***************************************************************************)
(* powerset. list(s) of a set s of names follows the order the run         *)
(* iterates sets in, a sequence of all names; itertools.combinations(s, r) *)
(* gives the r-subsequences of s in lexicographic order of positions.      *)
(***************************************************************************)
list(s, order) == SelectSeq(order, LAMBDA n : n \in s)

\* each tuple of cs with h put before it
prepend(h, cs) == [i \in 1..Len(cs) |-> <<h>> \o cs[i]]

RECURSIVE combinations(_, _)
combinations(s, r) ==
    IF r = 0 THEN << <<>> >>
    ELSE IF Len(s) < r THEN <<>>
    ELSE prepend(Head(s), combinations(Tail(s), r - 1)) \o combinations(Tail(s), r)

\* chain.from_iterable(combinations(s, r) for r in range(from, len(s) + 1))
RECURSIVE chain_combinations(_, _)
chain_combinations(s, from) ==
    IF from > Len(s) THEN <<>>
    ELSE combinations(s, from) \o chain_combinations(s, from + 1)

ToSet(t) == {t[i] : i \in 1..Len(t)}

\* [set(s) for s in c]
sets(c) == Tuple([i \in 1..Len(c) |-> ToSet(c[i])])

powerset(s, order) == sets(chain_combinations(list(s, order), 0))

(***************************************************************************)
(* joint_probability                                                       *)
(***************************************************************************)
genes_of(person, one_gene, two_genes) ==
    IF person \in two_genes THEN 2 ELSE IF person \in one_gene THEN 1 ELSE 0

\* the three values a parent's entry of the dict passing takes
passing_value ==
    [two  |-> NSub(NFromInt(1), PROBS.mutation),
     one  |-> Decimal(50),
     zero |-> PROBS.mutation]

\* passing[parent] once the loop over passing has run: parent is a name, a name
\* that is no key of people, or None
passing(parent, one_gene, two_genes) ==
    IF parent \in two_genes THEN passing_value.two
    ELSE IF parent \in one_gene THEN passing_value.one
    ELSE passing_value.zero

\* inherited with the case of one copy taken as that of both parents passing
\* the gene on or neither
inherited_swapped(genes, pm, pf) ==
    IF genes = 2 THEN NMul(pm, pf)
    ELSE IF genes = 1
         THEN NAdd(NMul(pm, pf), NMul(NSub(NFromInt(1), pm), NSub(NFromInt(1), pf)))
         ELSE NMul(NSub(NFromInt(1), pm), NSub(NFromInt(1), pf))

\* what a person with a mother or a father is multiplied in with, for the
\* values pm of passing[mother] and pf of passing[father]
inherited(genes, pm, pf) ==
    IF genes = 2 THEN NMul(pm, pf)
    ELSE IF genes = 1
         THEN NAdd(NMul(pm, NSub(NFromInt(1), pf)), NMul(NSub(NFromInt(1), pm), pf))
         ELSE NMul(NSub(NFromInt(1), pm), NSub(NFromInt(1), pf))

\* what joint_probability multiplies in for the number of genes of the person
gene_factor(people, person, one_gene, two_genes) ==
    IF people.val[person].mother = None /\ people.val[person].father = None
    THEN PROBS.gene[genes_of(person, one_gene, two_genes)]
    ELSE inherited(genes_of(person, one_gene, two_genes),
                   passing(people.val[person].mother, one_gene, two_genes),
                   passing(people.val[person].father, one_gene, two_genes))

\* times_person without the probability of the trait
times_person_gene_only(people, one_gene, two_genes, have_trait, person, probability) ==
    NMul(probability, gene_factor(people, person, one_gene, two_genes))

\* probability after the iteration of the loop for person
times_person(people, one_gene, two_genes, have_trait, person, probability) ==
    NMul(NMul(probability, gene_factor(people, person, one_gene, two_genes)),
         PROBS.trait[genes_of(person, one_gene, two_genes)][(person \in have_trait)])

\* probability after the first i people of the loop
RECURSIVE joint_probability_upto(_, _, _, _, _)
joint_probability_upto(people, one_gene, two_genes, have_trait, i) ==
    IF i = 0 THEN NFromInt(1)
    ELSE times_person(people, one_gene, two_genes, have_trait, people.keys[i],
             joint_probability_upto(people, one_gene, two_genes, have_trait, i - 1))

joint_probability(people, one_gene, two_genes, have_trait) ==
    joint_probability_upto(people, one_gene, two_genes, have_trait, Len(people.keys))

(***************************************************************************)
(* update and normalize                                                    *)
(***************************************************************************)
\* update_person adding p to both trait buckets
update_person_both_traits(dist, genes, trait, p) ==
    [gene  |-> [dist.gene EXCEPT ![genes] = NAdd(@, p)],
     trait |-> [dist.trait EXCEPT ![TRUE] = NAdd(@, p), ![FALSE] = NAdd(@, p)]]

update_person(dist, genes, trait, p) ==
    [gene  |-> [dist.gene EXCEPT ![genes] = NAdd(@, p)],
     trait |-> [dist.trait EXCEPT ![trait] = NAdd(@, p)]]

\* update without the line that adds p to the trait bucket
update_genes_only(probabilities, one_gene, two_genes, have_trait, p) ==
    [person \in DOMAIN probabilities |->
        [probabilities[person] EXCEPT
            !.gene[genes_of(person, one_gene, two_genes)] = NAdd(@, p)]]

update(probabilities, one_gene, two_genes, have_trait, p) ==
    [person \in DOMAIN probabilities |->
        update_person(probabilities[person], genes_of(person, one_gene, two_genes),
                      person \in have_trait, p)]

\* gene_sum with range(2) for range(3)
gene_sum_short(dist) == NAdd(NAdd(NFromInt(0), dist.gene[0]), dist.gene[1])

gene_sum(dist) == NAdd(NAdd(NAdd(NFromInt(0), dist.gene[0]), dist.gene[1]), dist.gene[2])

trait_sum(dist) == NAdd(dist.trait[TRUE], dist.trait[FALSE])

\* normalize divides by zero, and raises ZeroDivisionError, when a sum is zero
normalize_raises(probabilities) ==
    \E person \in DOMAIN probabilities :
        NIsZero(gene_sum(probabilities[person])) \/ NIsZero(trait_sum(probabilities[person]))

normalize_by(dist, gs, ts) ==
    Eval(gs, Eval(ts,
        [gene  |-> (0 :> NDiv(dist.gene[0], gs)) @@ (1 :> NDiv(dist.gene[1], gs)) @@
                   (2 :> NDiv(dist.gene[2], gs)),
         trait |-> (TRUE :> NDiv(dist.trait[TRUE], ts)) @@
                   (FALSE :> NDiv(dist.trait[FALSE], ts))]))

normalize_person(dist) == normalize_by(dist, gene_sum(dist), trait_sum(dist))

normalize(probabilities) ==
    [person \in DOMAIN probabilities |-> normalize_person(probabilities[person])]

(***************************************************************************)
(* print(f"{p:.4f}"): the decimal with four digits after the point that is *)
(* nearest to the float, to the even one of two that are equally near. It  *)
(* is given as the number of its ten-thousandths, 1976 for 0.1976.         *)
(***************************************************************************)
\* Format4 cutting the digits after the fourth off
Format4_floor(a) ==
    IF a.f.m = <<>> THEN 0
    ELSE IF a.f.e >= 0 THEN BigToInt(BigMul(BigShiftLeft(a.f.m, a.f.e), BigFromInt(10000)))
    ELSE BigToInt(BigShiftRight(BigMul(a.f.m, BigFromInt(10000)), 0 - a.f.e))

Format4(a) ==
    IF a.f.m = <<>> THEN 0
    ELSE IF a.f.e >= 0 THEN BigToInt(BigMul(BigShiftLeft(a.f.m, a.f.e), BigFromInt(10000)))
    ELSE BigToInt(BigRoundShift(BigMul(a.f.m, BigFromInt(10000)), 0 - a.f.e))

printed_person(dist) ==
    [gene  |-> (2 :> Format4(dist.gene[2])) @@ (1 :> Format4(dist.gene[1])) @@
               (0 :> Format4(dist.gene[0])),
     trait |-> (TRUE :> Format4(dist.trait[TRUE])) @@ (FALSE :> Format4(dist.trait[FALSE]))]

print(probabilities) ==
    [person \in DOMAIN probabilities |-> printed_person(probabilities[person])]

(***************************************************************************)
(* The input files: the rows of a CSV file after its header.               *)
(***************************************************************************)
Row(name, mother, father, trait) ==
    [name |-> name, mother |-> mother, father |-> father, trait |-> trait]

Files ==
    { <<>>,
      <<Row("A", "", "", "1")>>,
      <<Row("A", "", "", "0")>>,
      <<Row("A", "", "", "")>>,
      <<Row("A", "", "", "1"), Row("A", "", "", "yes")>>,
      <<Row("A", "B", "", "1")>>,
      <<Row("A", "A", "A", "0")>>,
      <<Row("A", "", "", ""), Row("B", "", "", "")>>,
      <<Row("A", "", "", "1"), Row("B", "", "", "")>>,
      <<Row("B", "", "A", "1"), Row("A", "", "", "")>>,
      <<Row("A", "", "", "0"), Row("B", "A", "Zed", "0")>>,
      <<Row("Harry", "Lily", "James", ""), Row("James", "", "", "1"),
        Row("Lily", "", "", "0")>> }

\* the files that are run more than once
TwiceFiles ==
    { <<Row("A", "", "", "1")>>,
      <<Row("A", "", "", "1"), Row("B", "", "", "")>> }

\* the number of runs of the program on a file
MaxRuns == 2

(***************************************************************************)
(* main                                                                    *)
(***************************************************************************)
VARIABLES
    file,           \* the rows of the CSV file named on the command line
    run,            \* the number of this run of the program on the file
    order,          \* the order in which this run iterates a set of names
    pc,             \* where main is: "start", "loop", "normalize", "done",
                    \* or "ZeroDivisionError" once normalize has raised it
    people,         \* the dict load_data returned
    probabilities,  \* the dict of the distributions of each person
    at,             \* the iteration the three nested loops are at: the indices
                    \* t, o, w of have_trait, one_gene, two_genes in their lists
    p,              \* the joint probability of the world evaluated last
    world,          \* the world evaluated last
    evaluated,      \* the worlds passed to joint_probability and update so far
    calls,          \* the number of calls of update so far
    total,          \* the sum of the joint probabilities passed to update so far
    printed,        \* what main has printed
    previous        \* probabilities and printed at the end of the previous run

vars == <<file, run, order, pc, people, probabilities, at, p, world, evaluated, calls,
          total, printed, previous>>

names == DOMAIN people.val

\* the orders in which a set S can be iterated
Orders(S) ==
    {s \in [1..Cardinality(S) -> S] : \A i, j \in 1..Cardinality(S) : s[i] = s[j] => i = j}

World(one, two, trait) == [one_gene |-> one, two_genes |-> two, have_trait |-> trait]

\* the sets the three loops are at
have_trait == powerset(names, order)[at.t]
one_gene   == powerset(names, order)[at.o]

\* the list of the innermost loop were it powerset(names)
two_genes_all == powerset(names, order)

\* the list the innermost loop iterates
two_genes_list == powerset(names \ one_gene, order)

two_genes == two_genes_list[at.w]

\* fails_evidence finding no have_trait in conflict with the known traits
fails_evidence_never(data, trait_set) == FALSE

fails_evidence(data, trait_set) ==
    \E person \in DOMAIN data.val :
        /\ data.val[person].trait /= None
        /\ data.val[person].trait /= BoolStr(person \in trait_set)

\* the iteration after the one at a, and where main is then
next_at(a) ==
    IF a.w < Len(two_genes_list) THEN [a EXCEPT !.w = a.w + 1]
    ELSE IF a.o < Len(powerset(names, order)) THEN [t |-> a.t, o |-> a.o + 1, w |-> 1]
    ELSE [t |-> a.t + 1, o |-> 1, w |-> 1]

pc_at(a) == IF a.t > Len(powerset(names, order)) THEN "normalize" ELSE "loop"

NoWorld == World({}, {}, {})

InitOf(files) ==
    /\ file \in files
    /\ run = 1
    /\ order = <<>>
    /\ pc = "start"
    /\ people = [keys |-> <<>>, val |-> <<>>]
    /\ probabilities = <<>>
    /\ at = [t |-> 1, o |-> 1, w |-> 1]
    /\ p = NFromInt(0)
    /\ world = NoWorld
    /\ evaluated = {}
    /\ calls = 0
    /\ total = NFromInt(0)
    /\ printed = <<>>
    /\ previous = <<>>

Init == InitOf(Files)

\* main up to its loops: load_data, the distributions all 0, names
Load ==
    /\ pc = "start"
    /\ people' = load_data(file)
    /\ probabilities' =
          [person \in DOMAIN people'.val |->
              [gene  |-> (2 :> NFromInt(0)) @@ (1 :> NFromInt(0)) @@ (0 :> NFromInt(0)),
               trait |-> (TRUE :> NFromInt(0)) @@ (FALSE :> NFromInt(0))]]
    /\ order' \in Orders(DOMAIN people'.val)
    /\ at' = [t |-> 1, o |-> 1, w |-> 1]
    /\ pc' = "loop"
    /\ UNCHANGED <<file, run, p, world, evaluated, calls, total, printed, previous>>

\* an iteration of the outer loop whose have_trait violates the known traits
Continue ==
    /\ pc = "loop"
    /\ fails_evidence(people, have_trait)
    /\ at' = [t |-> at.t + 1, o |-> 1, w |-> 1]
    /\ pc' = pc_at(at')
    /\ UNCHANGED <<file, run, order, people, probabilities, p, world, evaluated, calls,
                   total, printed, previous>>

\* an iteration of the innermost loop: joint_probability and update
Evaluate ==
    /\ pc = "loop"
    /\ ~fails_evidence(people, have_trait)
    /\ world' = World(one_gene, two_genes, have_trait)
    /\ p' = joint_probability(people, world'.one_gene, world'.two_genes, world'.have_trait)
    /\ probabilities' =
          update(probabilities, world'.one_gene, world'.two_genes, world'.have_trait, p')
    /\ evaluated' = evaluated \cup {world'}
    /\ calls' = calls + 1
    /\ total' = NAdd(total, p')
    /\ at' = next_at(at)
    /\ pc' = pc_at(at')
    /\ UNCHANGED <<file, run, order, people, printed, previous>>

\* normalize and the printing of the results, after the loops
Normalize ==
    /\ pc = "normalize"
    /\ IF normalize_raises(probabilities)
       THEN pc' = "ZeroDivisionError" /\ UNCHANGED <<probabilities, printed>>
       ELSE /\ pc' = "done"
            /\ probabilities' = normalize(probabilities)
            /\ printed' = print(probabilities')
    /\ UNCHANGED <<file, run, order, people, at, p, world, evaluated, calls, total,
                   previous>>

\* the program is run again on the same file
Rerun ==
    /\ pc = "done"
    /\ run < MaxRuns
    /\ run' = run + 1
    /\ previous' = [probabilities |-> probabilities, printed |-> printed]
    /\ order' = <<>>
    /\ pc' = "start"
    /\ people' = [keys |-> <<>>, val |-> <<>>]
    /\ probabilities' = <<>>
    /\ at' = [t |-> 1, o |-> 1, w |-> 1]
    /\ p' = NFromInt(0)
    /\ world' = NoWorld
    /\ evaluated' = {}
    /\ calls' = 0
    /\ total' = NFromInt(0)
    /\ printed' = <<>>
    /\ UNCHANGED file

Next == Load \/ Continue \/ Evaluate \/ Normalize

Spec == Init /\ [][Next]_vars

InitTwice == InitOf(TwiceFiles)

NextTwice == Next \/ Rerun

SpecTwice == InitTwice /\ [][NextTwice]_vars

(***************************************************************************)
(* The properties. Exact values are compared as rationals, what the        *)
(* program stores as floats.                                                *)
(***************************************************************************)
Done == pc = "done"

AfterLoops == pc \in {"normalize", "done", "ZeroDivisionError"}

trait_of(person) == people.val[person].trait

NoEvidence == \A person \in names : trait_of(person) = None

\* one_gene and two_genes are disjoint sets of names, and have_trait is a set of
\* names that agrees with every known trait
Consistent(w) ==
    /\ w.one_gene \subseteq names
    /\ w.two_genes \subseteq names
    /\ w.have_trait \subseteq names
    /\ w.one_gene \cap w.two_genes = {}
    /\ \A person \in names :
          trait_of(person) /= None => trait_of(person) = BoolStr(person \in w.have_trait)

ConsistentWorlds ==
    {w \in [one_gene : SUBSET names, two_genes : SUBSET names, have_trait : SUBSET names] :
        Consistent(w)}

\* C1: the worlds passed to joint_probability and update are worlds consistent
\* with the evidence, each passed once, and when the loops end they are all the
\* consistent worlds: 36 for two people without evidence, the one world of
\* empty sets for no people.
C1_WorldsExactlyOnce ==
    /\ calls = Cardinality(evaluated)
    /\ \A w \in evaluated : Consistent(w)
    /\ AfterLoops =>
          /\ evaluated = ConsistentWorlds
          /\ (Cardinality(names) = 2 /\ NoEvidence) => calls = 36
          /\ names = {} => (calls = 1 /\ evaluated = {NoWorld})

C1_Witness == Done /\ Cardinality(names) = 2 /\ NoEvidence /\ calls = 36

\* exact sums and float sums of a distribution, in the order 0, 1, 2
XSum3(f) == RatAdd(RatAdd(f[0].x, f[1].x), f[2].x)

XSum2(f) == RatAdd(f[TRUE].x, f[FALSE].x)

FSum3(f) == FAdd(FAdd(f[0].f, f[1].f), f[2].f)

FSum2(f) == FAdd(f[TRUE].f, f[FALSE].f)

RatOne == Rat(1, 1)

\* 1e-9
Tolerance == Rat(1, 1000000000)

NearOne(a) == RatLeq(RatDist(FToRat(a), RatOne), Tolerance)

\* new is old with every bucket divided by the sum of the buckets of old
Scaled(old, new, sum, keys) ==
    \A k \in keys : RatEq(RatMul(new[k].x, sum), old[k].x)

Normalized(old, new) ==
    /\ RatEq(XSum3(new.gene), RatOne)
    /\ RatEq(XSum2(new.trait), RatOne)
    /\ NearOne(FSum3(new.gene))
    /\ NearOne(FSum2(new.trait))
    /\ Scaled(old.gene, new.gene, XSum3(old.gene), 0..2)
    /\ Scaled(old.trait, new.trait, XSum2(old.trait), BOOLEAN)

\* C2: normalize leaves every person's gene probabilities summing to 1 and trait
\* probabilities summing to 1, exactly as rationals and within 1e-9 as floats,
\* each probability being the accumulated mass divided by the sum of the masses.
C2_NormalizeSumsToOne ==
    [][(pc = "normalize" /\ pc' = "done") =>
          \A person \in names : Normalized(probabilities[person], probabilities'[person])]_vars

C2_Witness ==
    /\ Done
    /\ Cardinality(names) = 3
    /\ \A person \in names : RatEq(XSum3(probabilities[person].gene), RatOne)

\* the probability that a parent with the given number of copies passes the gene
Transmits(copies) ==
    IF copies = 2 THEN Rat(99, 100) ELSE IF copies = 1 THEN Rat(50, 100) ELSE Rat(1, 100)

Mendel(genes, tm, tf) ==
    IF genes = 2 THEN RatMul(tm, tf)
    ELSE IF genes = 1
         THEN RatAdd(RatMul(tm, RatSub(RatOne, tf)), RatMul(RatSub(RatOne, tm), tf))
         ELSE RatMul(RatSub(RatOne, tm), RatSub(RatOne, tf))

HasBothParents(person) ==
    people.val[person].mother /= None /\ people.val[person].father /= None

copies(person) == genes_of(person, world.one_gene, world.two_genes)

\* C3: in every evaluated world the factor of a person with both parents is
\* tm*tf, tm*(1-tf) + (1-tm)*tf or (1-tm)*(1-tf) for 2, 1 or 0 copies, tm and tf
\* being 0.99, 0.5 or 0.01 for a parent with 2, 1 or 0 copies; it is 0.0198 for
\* one copy when both parents have none.
C3_InheritanceFactor ==
    calls > 0 =>
        \A person \in names :
            HasBothParents(person) =>
                /\ RatEq(gene_factor(people, person, world.one_gene, world.two_genes).x,
                         Mendel(copies(person),
                                Transmits(copies(people.val[person].mother)),
                                Transmits(copies(people.val[person].father))))
                /\ ( /\ copies(person) = 1
                     /\ copies(people.val[person].mother) = 0
                     /\ copies(people.val[person].father) = 0 ) =>
                        /\ RatEq(gene_factor(people, person, world.one_gene,
                                             world.two_genes).x, Rat(198, 10000))
                        /\ gene_factor(people, person, world.one_gene, world.two_genes).f
                              = FDiv(FFromInt(198), FFromInt(10000))

C3_Witness ==
    /\ calls > 0
    /\ \E person \in names :
          /\ HasBothParents(person)
          /\ {people.val[person].mother, people.val[person].father} \subseteq names
          /\ people.val[person].mother /= people.val[person].father
          /\ copies(person) = 1
          /\ copies(people.val[person].mother) = 0
          /\ copies(people.val[person].father) = 0
          /\ RatEq(gene_factor(people, person, world.one_gene, world.two_genes).x,
                   Rat(198, 10000))

\* the population is the one founder A, known to have the trait
FounderWithTrait ==
    /\ people.keys = <<"A">>
    /\ people.val["A"].mother = None
    /\ people.val["A"].father = None
    /\ people.val["A"].trait = "True"

\* C4: for the one founder A with the trait, the masses accumulated for 2, 1 and
\* 0 copies when normalize is called are 0.01*0.65 = 0.0065, 0.03*0.56 = 0.0168
\* and 0.96*0.01 = 0.0096, and the floats are these products of floats.
C4_FounderMasses ==
    (pc = "normalize" /\ FounderWithTrait) =>
        /\ RatEq(probabilities["A"].gene[2].x, Rat(65, 10000))
        /\ RatEq(probabilities["A"].gene[1].x, Rat(168, 10000))
        /\ RatEq(probabilities["A"].gene[0].x, Rat(96, 10000))
        /\ probabilities["A"].gene[2].f = FMul(Decimal(1).f, Decimal(65).f)
        /\ probabilities["A"].gene[1].f = FMul(Decimal(3).f, Decimal(56).f)
        /\ probabilities["A"].gene[0].f = FMul(Decimal(96).f, Decimal(1).f)

C4_Witness ==
    /\ pc = "normalize"
    /\ FounderWithTrait
    /\ RatEq(probabilities["A"].gene[2].x, Rat(65, 10000))

\* C5 as the specification states it: the printed gene distribution of the one
\* founder A with the trait is 2: 0.1926, 1: 0.4979, 0: 0.2844.
C5_AsStated ==
    (Done /\ FounderWithTrait) =>
        /\ printed["A"].gene[2] = 1926
        /\ printed["A"].gene[1] = 4979
        /\ printed["A"].gene[0] = 2844

\* C5: the printed gene distribution of the one founder A with the trait is
\* 2: 0.1976, 1: 0.5106, 0: 0.2918, which sum to 1.
C5_FounderPrinted ==
    (Done /\ FounderWithTrait) =>
        /\ printed["A"].gene[2] = 1976
        /\ printed["A"].gene[1] = 5106
        /\ printed["A"].gene[0] = 2918
        /\ printed["A"].gene[2] + printed["A"].gene[1] + printed["A"].gene[0] = 10000

C5_Witness == Done /\ FounderWithTrait /\ printed["A"].gene[2] = 1976

\* a row names a mother or a father that no row of the file is for, or has
\* exactly one of mother and father
RowNames(rows) == {rows[i].name : i \in DOMAIN rows}

Malformed(rows) ==
    \E i \in DOMAIN rows :
        \/ rows[i].mother /= "" /\ rows[i].mother \notin RowNames(rows)
        \/ rows[i].father /= "" /\ rows[i].father \notin RowNames(rows)
        \/ (rows[i].mother = "") /= (rows[i].father = "")

\* C6 as the specification states it: on a file with a row that names a parent
\* that is no row of the file, or that has exactly one parent, the run stops
\* before any world is evaluated: joint_probability, update and normalize are
\* never reached and nothing is printed.
C6_AsStated ==
    Malformed(file) =>
        /\ calls = 0
        /\ pc \notin {"normalize", "done"}
        /\ printed = <<>>

SumsPositive(dist) ==
    /\ FSum3(dist.gene) /= FZero
    /\ FSum2(dist.trait) /= FZero
    /\ ~RatIsZero(XSum3(dist.gene))
    /\ ~RatIsZero(XSum2(dist.trait))

\* C7: when normalize is called on a population that is not empty, the gene
\* buckets of every person sum to more than 0 and so do the trait buckets, and
\* normalize never raises ZeroDivisionError.
C7_NoDivisionByZero ==
    /\ (pc = "normalize" /\ names /= {}) =>
          \A person \in names : SumsPositive(probabilities[person])
    /\ pc /= "ZeroDivisionError"

C7_Witness ==
    /\ pc = "normalize"
    /\ \E person \in names : people.val[person].mother /= None
    /\ \E person \in names : trait_of(person) /= None
    /\ \A person \in names : SumsPositive(probabilities[person])

\* the floats of the distributions
Floats(probs) ==
    [person \in DOMAIN probs |->
        [gene  |-> [g \in 0..2 |-> probs[person].gene[g].f],
         trait |-> [t \in BOOLEAN |-> probs[person].trait[t].f]]]

\* C8 as the specification states it: the second run of the program on a file
\* ends with the distributions the first run ended with.
C8_AsStated ==
    (run = 2 /\ Done) => Floats(probabilities) = Floats(previous.probabilities)

\* the bucket k of the distribution f after p is added to the bucket at
Bucket(f, k, at_k, q) == IF k = at_k THEN NAdd(f[k], q) ELSE f[k]

\* C9: a call of update adds p to the gene bucket of each person for the copies
\* the person has in the world and to the trait bucket of each person for
\* whether the person is in have_trait, and changes no other bucket; after it
\* the gene buckets and the trait buckets of each person sum to the total of
\* the joint probabilities added so far.
C9_UpdateOneBucketEach ==
    [][calls' = calls + 1 =>
          \A person \in names :
              /\ \A g \in 0..2 :
                    probabilities'[person].gene[g] =
                        Bucket(probabilities[person].gene, g,
                               genes_of(person, world'.one_gene, world'.two_genes), p')
              /\ \A t \in BOOLEAN :
                    probabilities'[person].trait[t] =
                        Bucket(probabilities[person].trait, t,
                               person \in world'.have_trait, p')
              /\ RatEq(XSum3(probabilities'[person].gene), total'.x)
              /\ RatEq(XSum2(probabilities'[person].trait), total'.x)]_vars

C9_Witness ==
    /\ calls >= 2
    /\ Cardinality(names) >= 2
    /\ ~RatIsZero(total.x)
    /\ \A person \in names :
          /\ RatEq(XSum3(probabilities[person].gene), total.x)
          /\ RatEq(XSum2(probabilities[person].trait), total.x)

observed(person) == trait_of(person) = "True"

\* C10: for a person whose trait is known, no update adds to the bucket of the
\* other trait value, and the normalized trait distribution is 1.0 for the known
\* value and 0.0 for the other.
C10_ObservedTraitCertain ==
    \A person \in names :
        trait_of(person) /= None =>
            /\ pc \in {"loop", "normalize"} =>
                  probabilities[person].trait[~observed(person)] = NFromInt(0)
            /\ Done =>
                  /\ probabilities[person].trait[observed(person)].f = FFromInt(1)
                  /\ probabilities[person].trait[~observed(person)].f = FZero
                  /\ RatEq(probabilities[person].trait[observed(person)].x, RatOne)
                  /\ RatIsZero(probabilities[person].trait[~observed(person)].x)

C10_Witness ==
    /\ Done
    /\ Cardinality(names) >= 2
    /\ \E person \in names : trait_of(person) = None
    /\ \E person \in names :
          /\ trait_of(person) = "True"
          /\ probabilities[person].trait[TRUE].f = FFromInt(1)
          /\ probabilities[person].trait[FALSE].f = FZero

====
